---- MODULE Spec2Model ----
(***************************************************************************)
(* A model of the IPP attribute wire layer of ipp-parse:                   *)
(*   - IppAttribute / IppAttributeList  (src/ipp-parse/src/attribute.rs)   *)
(*   - IppParser::parse                 (src/ipp-parse/src/parser.rs)      *)
(* A Rust String is its UTF-8 bytes, so a name is a sequence of bytes; the *)
(* wire is a sequence of bytes (0..255).  The value codec (value.rs), the  *)
(* tag enumerations (ipp.rs) and the header codec (lib.rs) are not part of *)
(* the two files above and are modelled from the specification.            *)
(***************************************************************************)
EXTENDS Integers, Sequences, FiniteSets, TLC

\* ------------------------------------------------------------------ bounds
\* at most this many add() calls before the list is written
MaxAdds == 3
\* at most this many records sent by a peer on a raw stream
MaxRecs == 4

\* ------------------------------------------------------- tags (ipp.rs)
OperationAttributes == 1
JobAttributes == 2
EndOfAttributes == 3
PrinterAttributes == 4
UnsupportedAttributes == 5
\* the delimiter bytes that DelimiterTag::from_u8 maps to a group
DelimiterTag == {OperationAttributes, JobAttributes, EndOfAttributes,
                 PrinterAttributes, UnsupportedAttributes}
Integer == 33
Keyword == 68
BegCollection == 52
EndCollection == 55

is_delimiter_tag(tag) == tag \in 0..15
is_value_tag(tag) == tag \in 16..74

\* Option<T>
None == [some |-> FALSE]
Some(x) == [some |-> TRUE, v |-> x]

\* DelimiterTag::from_u8
DelimiterTag_from_u8(tag) == IF tag \in DelimiterTag THEN Some(tag) ELSE None

\* ---------------------------------------------------- values (value.rs)
\* IppValue: a scalar owns its tag and payload; ListOf and Collection own
\* a list of values.
Scalar(t, d) == [kind |-> "Scalar", tag |-> t, data |-> d, list |-> <<>>]
ListOf(l) == [kind |-> "ListOf", tag |-> 0, data |-> <<>>, list |-> l]
Collection(l) == [kind |-> "Collection", tag |-> 0, data |-> <<>>, list |-> l]

\* write_u16::<BigEndian>(n as u16)
U16BE(n) == << ((n % 65536) \div 256), (n % 256) >>
\* read_u16::<BigEndian>
ReadU16BE(hi, lo) == hi * 256 + lo

RECURSIVE Flatten(_)
Flatten(ss) == IF ss = <<>> THEN <<>> ELSE Head(ss) \o Flatten(Tail(ss))

RECURSIVE SumSeq(_)
SumSeq(ns) == IF ns = <<>> THEN 0 ELSE Head(ns) + SumSeq(Tail(ns))

\* IppValue::to_tag: a list has the tag of its first element
IppValue_to_tag(v) ==
    CASE v.kind = "Scalar" -> v.tag
      [] v.kind = "ListOf" -> v.list[1].tag
      [] OTHER -> BegCollection

\* IppValue::write: value-length (2 bytes, big-endian) and the payload; the
\* elements of a list after the first are each preceded by the list's tag and
\* a zero name length.
IppValue_write(v) ==
    CASE v.kind = "Scalar" -> U16BE(Len(v.data)) \o v.data
      [] v.kind = "ListOf" ->
           Flatten([i \in 1..Len(v.list) |->
                      (IF i = 1 THEN <<>> ELSE <<v.list[1].tag>> \o U16BE(0))
                      \o U16BE(Len(v.list[i].data)) \o v.list[i].data])
      [] OTHER -> U16BE(0)

\* -------------------------------------------- attribute names (attribute.rs)
\* "attributes-charset"
ATTRIBUTES_CHARSET ==
    <<97, 116, 116, 114, 105, 98, 117, 116, 101, 115, 45, 99, 104, 97, 114,
      115, 101, 116>>
\* "attributes-natural-language"
ATTRIBUTES_NATURAL_LANGUAGE ==
    <<97, 116, 116, 114, 105, 98, 117, 116, 101, 115, 45, 110, 97, 116, 117,
      114, 97, 108, 45, 108, 97, 110, 103, 117, 97, 103, 101>>
\* "printer-uri"
PRINTER_URI == <<112, 114, 105, 110, 116, 101, 114, 45, 117, 114, 105>>
\* "job-id"
JOB_ID == <<106, 111, 98, 45, 105, 100>>
\* "job-name"
JOB_NAME == <<106, 111, 98, 45, 110, 97, 109, 101>>

HEADER_ATTRS_swapped ==
    <<ATTRIBUTES_CHARSET, PRINTER_URI, ATTRIBUTES_NATURAL_LANGUAGE>>

HEADER_ATTRS ==
    <<ATTRIBUTES_CHARSET, ATTRIBUTES_NATURAL_LANGUAGE, PRINTER_URI>>

is_header_attr(attr) == \E i \in 1..Len(HEADER_ATTRS) : HEADER_ATTRS[i] = attr

\* ------------------------------------------------ IppAttribute (attribute.rs)
IppAttribute_new(name, value) == [name |-> name, value |-> value]

\* IppAttribute::write: the bytes put on the writer
IppAttribute_write(attr) ==
    <<IppValue_to_tag(attr.value)>>
    \o U16BE(Len(attr.name))
    \o attr.name
    \o IppValue_write(attr.value)

\* IppAttribute::write: the count it returns
IppAttribute_write_retval_no_tag(attr) ==
    2 + Len(attr.name) + Len(IppValue_write(attr.value))

IppAttribute_write_retval(attr) ==
    1 + 2 + Len(attr.name) + Len(IppValue_write(attr.value))

\* -------------------------------------------- IppAttributeList (attribute.rs)
\* HashMap<DelimiterTag, HashMap<String, IppAttribute>>: a function from the
\* groups present to a function from the names present to the attribute.
IppAttributeList_new == [g \in {} |-> [n \in {} |-> 0]]

IppAttributeList_add_keep_first(list, group, attribute) ==
    LET old == IF group \in DOMAIN list THEN list[group] ELSE [n \in {} |-> 0]
        opt == [n \in (DOMAIN old) \cup {attribute.name} |->
                   IF n \in DOMAIN old THEN old[n] ELSE attribute]
    IN  [g \in (DOMAIN list) \cup {group} |->
            IF g = group THEN opt ELSE list[g]]

IppAttributeList_add_with_job(list, group, attribute) ==
    LET old == IF group \in DOMAIN list THEN list[group] ELSE [n \in {} |-> 0]
        opt == [n \in (DOMAIN old) \cup {attribute.name} |->
                   IF n = attribute.name THEN attribute ELSE old[n]]
    IN  [g \in (DOMAIN list) \cup {group, JobAttributes} |->
            IF g = group THEN opt
            ELSE IF g \in DOMAIN list THEN list[g] ELSE [n \in {} |-> 0]]

IppAttributeList_add(list, group, attribute) ==
    LET old == IF group \in DOMAIN list THEN list[group] ELSE [n \in {} |-> 0]
        opt == [n \in (DOMAIN old) \cup {attribute.name} |->
                   IF n = attribute.name THEN attribute ELSE old[n]]
    IN  [g \in (DOMAIN list) \cup {group} |->
            IF g = group THEN opt ELSE list[g]]

IppAttributeList_get(list, group, name) ==
    IF group \in DOMAIN list /\ name \in DOMAIN list[group]
    THEN Some(list[group][name])
    ELSE None

IppAttributeList_get_group(list, group) ==
    IF group \in DOMAIN list THEN Some(list[group]) ELSE None

\* the names stored under a group (empty when the group is absent)
GroupNames(list, group) ==
    IF group \in DOMAIN list THEN DOMAIN list[group] ELSE {}

\* the iteration orders a HashMap with key set S can have
IterOrders(S) ==
    {s \in [1..Cardinality(S) -> S] :
        \A i, j \in 1..Cardinality(S) : i # j => s[i] # s[j]}

\* What write puts on the writer, one item per write_u8 of a delimiter tag and
\* per IppAttribute::write: the group the item belongs to, the attribute (for
\* an attribute item), the bytes, and what the item adds to retval.
DelimItem(g) ==
    [kind |-> "delim", group |-> g, name |-> <<>>, bytes |-> <<g>>, n |-> 1]
AttrItem(g, attr) ==
    [kind |-> "attr", group |-> g, name |-> attr.name,
     bytes |-> IppAttribute_write(attr), n |-> IppAttribute_write_retval(attr)]

\* the header loop of write (lines 182-186)
HeaderItems(list) ==
    LET present == SelectSeq(HEADER_ATTRS,
                     LAMBDA hdr :
                       IppAttributeList_get(list, OperationAttributes, hdr).some)
    IN  [i \in 1..Len(present) |->
            AttrItem(OperationAttributes,
                     IppAttributeList_get(list, OperationAttributes, present[i]).v)]

\* the groups of the second loop of write, in its order (lines 189-193)
WRITE_GROUPS_swapped == <<OperationAttributes, PrinterAttributes, JobAttributes>>

WRITE_GROUPS == <<OperationAttributes, JobAttributes, PrinterAttributes>>

\* line 196: the group's tag is written again unless it is Operation
EmitsGroupTag_always(group) == TRUE

EmitsGroupTag(group) == group # OperationAttributes

\* the filter of lines 200-202
KeepInGroup_anyGroup(group, name) == ~is_header_attr(name)

KeepInGroup(group, name) ==
    group # OperationAttributes \/ ~is_header_attr(name)

\* one group of the second loop (lines 194-205); iter is the order in which
\* attrs.iter() yields the names of the group
GroupItems_and_unsupported(list, group, iter) ==
    (IF IppAttributeList_get_group(list, group).some
     THEN LET kept == SelectSeq(iter, LAMBDA nm : KeepInGroup(group, nm))
          IN  (IF EmitsGroupTag(group) THEN <<DelimItem(group)>> ELSE <<>>)
              \o [i \in 1..Len(kept) |-> AttrItem(group, list[group][kept[i]])]
     ELSE <<>>)
    \o (IF group = PrinterAttributes
           /\ IppAttributeList_get_group(list, UnsupportedAttributes).some
        THEN LET nm == CHOOSE n \in DOMAIN list[UnsupportedAttributes] : TRUE
             IN  <<DelimItem(UnsupportedAttributes),
                   AttrItem(UnsupportedAttributes,
                            list[UnsupportedAttributes][nm])>>
        ELSE <<>>)

GroupItems(list, group, iter) ==
    IF IppAttributeList_get_group(list, group).some
    THEN LET kept == SelectSeq(iter, LAMBDA nm : KeepInGroup(group, nm))
         IN  (IF EmitsGroupTag(group) THEN <<DelimItem(group)>> ELSE <<>>)
             \o [i \in 1..Len(kept) |-> AttrItem(group, list[group][kept[i]])]
    ELSE <<>>

\* IppAttributeList::write; iters[g] is the iteration order of group g
IppAttributeList_write(list, iters) ==
    <<DelimItem(OperationAttributes)>>
    \o HeaderItems(list)
    \o Flatten([i \in 1..Len(WRITE_GROUPS) |->
                  GroupItems(list, WRITE_GROUPS[i], iters[WRITE_GROUPS[i]])])
    \o <<DelimItem(EndOfAttributes)>>

ItemBytes(items) == Flatten([i \in 1..Len(items) |-> items[i].bytes])
ItemCount(items) == SumSeq([i \in 1..Len(items) |-> items[i].n])

\* --------------------------------------------------------- parser (parser.rs)
list_to_value_always_list(list) == ListOf(list)

list_to_value(list) ==
    IF Len(list) = 1 THEN list[1] ELSE ListOf(list)

\* Vec::pop / Vec::push / Vec::last_mut on the stack of value lists
Front(s) == SubSeq(s, 1, Len(s) - 1)
Last(s) == s[Len(s)]
PushValue(stk, v) ==
    IF stk = <<>> THEN stk
    ELSE Append(Front(stk), Append(Last(stk), v))

\* lines 70-77 and 96-103: put the previous attribute into retval
Flush_unconditional(list, delim, lname, stk) ==
    IF stk # <<>>
    THEN IppAttributeList_add(list, delim,
             IppAttribute_new(IF lname.some THEN lname.v ELSE <<>>,
                              list_to_value(Last(stk))))
    ELSE list

Flush_sentinel_group(list, delim, lname, stk) ==
    IF lname.some /\ stk # <<>>
    THEN IppAttributeList_add(list, EndOfAttributes,
             IppAttribute_new(lname.v, list_to_value(Last(stk))))
    ELSE list

Flush(list, delim, lname, stk) ==
    IF lname.some /\ stk # <<>>
    THEN IppAttributeList_add(list, delim,
             IppAttribute_new(lname.v, list_to_value(Last(stk))))
    ELSE list

\* lines 113-120: EndCollection pops the innermost list and pushes it, wrapped,
\* onto the list below
OnEndCollection_as_list(stk) ==
    IF stk = <<>> THEN stk
    ELSE PushValue(Front(stk), ListOf(Last(stk)))

OnEndCollection_no_pop(stk) ==
    IF stk = <<>> THEN stk
    ELSE Append(PushValue(Front(stk), Collection(Last(stk))), <<>>)

OnEndCollection(stk) ==
    IF stk = <<>> THEN stk
    ELSE PushValue(Front(stk), Collection(Last(stk)))

\* IppValue::read(tag, reader): value-length (2 bytes, big-endian), then the
\* payload
IppValue_read(tag, data) == Scalar(tag, data)

\* One value-tag record at the head of the unread bytes r (lines 88-90):
\* read_u16 name length, read_string, IppValue::read.  ok is FALSE when the
\* bytes end before the record does.
Record(r) ==
    LET n == Len(r)
        namelen == IF n >= 3 THEN ReadU16BE(r[2], r[3]) ELSE 0
        vlen == IF n >= 5 + namelen
                THEN ReadU16BE(r[4 + namelen], r[5 + namelen]) ELSE 0
        size == 5 + namelen + vlen
    IN  IF n >= 3 /\ n >= 5 + namelen /\ n >= size
        THEN [ok |-> TRUE, tag |-> r[1], namelen |-> namelen,
              name |-> SubSeq(r, 4, 3 + namelen),
              value |-> IppValue_read(r[1], SubSeq(r, 6 + namelen, size)),
              size |-> size]
        ELSE [ok |-> FALSE, tag |-> r[1], namelen |-> 0, name |-> <<>>,
              value |-> Scalar(0, <<>>), size |-> n]

\* --------------------------------------------------------------- the inputs
\* IppHeader: version (2 bytes), operation or status (2), request id (4)
IppHeaderLen == 8
IppHeaderBytes == <<1, 1, 0, 11, 0, 0, 0, 1>>

\* a value-tag record as it travels
Rec(tag, name, data) ==
    <<tag>> \o U16BE(Len(name)) \o name \o U16BE(Len(data)) \o data

\* the values attributes are built with
I1 == Scalar(Integer, <<0, 0, 0, 1>>)
I2 == Scalar(Integer, <<0, 0, 0, 2>>)
K1 == Scalar(Keyword, <<120>>)
Values == {I1, ListOf(<<I2, I1>>)}
Groups == {OperationAttributes, JobAttributes, PrinterAttributes}
\* the add() calls tried: a header name with one value, another name with
\* either value
AddChoices ==
    ({OperationAttributes}
        \X {ATTRIBUTES_CHARSET, ATTRIBUTES_NATURAL_LANGUAGE, PRINTER_URI}
        \X {I1})
    \cup ({JobAttributes} \X {ATTRIBUTES_CHARSET, PRINTER_URI} \X {I1})
    \cup ({PrinterAttributes} \X {PRINTER_URI} \X {I1})
    \cup ({OperationAttributes, JobAttributes} \X {JOB_ID, JOB_NAME}
            \X Values)
    \cup ({PrinterAttributes} \X {JOB_ID} \X Values)

\* what a peer can send after the header: records that let parse go on ...
Tokens ==
    { <<OperationAttributes>>,
      Rec(Integer, JOB_ID, I1.data), Rec(Keyword, JOB_NAME, K1.data),
      Rec(Integer, <<>>, I2.data), Rec(Keyword, <<>>, K1.data),
      Rec(BegCollection, PRINTER_URI, <<>>), Rec(EndCollection, <<>>, <<>>) }
\* ... and bytes that end it: the end sentinel followed by the first byte of a
\* document, a delimiter byte of no group, a byte that is no tag followed by
\* one more byte
LastTokens == { <<EndOfAttributes, 37>>, <<15>>, <<127, EndOfAttributes>> }
\* ... and a record cut short by the peer closing the stream
CutTokens == { <<Integer, 0, 1, 97>> }

\* ------------------------------------------------------------------- state
VARIABLES
    pc,          \* "build", "written", "header", "loop", "done"
    attributes,  \* the IppAttributeList being built and written
    nAdds,       \* add() calls so far
    items,       \* history: what write put on the writer, item by item
    buf,         \* the bytes write put on the writer
    written,     \* the count write returned
    source,      \* where parse's reader comes from: "none", "written", "stream"
    reader,      \* the bytes of the reader not read yet
    closed,      \* no byte will follow those of reader
    nsent,       \* records the peer has sent on a raw stream
    delimiter,   \* parse: last delimiter tag
    stack,       \* parse: stack of value lists
    retval,      \* parse: the list being filled
    last_name,   \* parse: name of the previous attribute
    outcome,     \* parse: "running", "ok", "tag_error", "io_error"
    errByte,     \* the byte a tag error carries (-1: none)
    result,      \* the attributes of the IppParseResult returned, if any
    read,        \* history: the bytes parse has read from the reader
    attr_written \* history: what one IppAttribute::write put on the writer

vars == <<pc, attributes, nAdds, items, buf, written, source, reader, closed,
          nsent, delimiter, stack, retval, last_name, outcome, errByte, result,
          read, attr_written>>

builderVars == <<attributes, nAdds, items, buf, written, attr_written>>
parserVars == <<delimiter, stack, retval, last_name, outcome, errByte, result,
                read>>

Init ==
    /\ pc = "build"
    /\ attributes = IppAttributeList_new
    /\ nAdds = 0
    /\ items = <<>>
    /\ buf = <<>>
    /\ written = 0
    /\ source = "none"
    /\ reader = <<>>
    /\ closed = FALSE
    /\ nsent = 0
    /\ delimiter = EndOfAttributes
    /\ stack = << <<>> >>
    /\ retval = IppAttributeList_new
    /\ last_name = None
    /\ outcome = "running"
    /\ errByte = -1
    /\ result = None
    /\ read = <<>>
    /\ attr_written = None

\* ---------------------------------------------------------- the builder side
\* IppAttributeList::add
Add(group, name, value) ==
    /\ pc = "build"
    /\ nAdds < MaxAdds
    /\ attributes' = IppAttributeList_add(attributes, group,
                                          IppAttribute_new(name, value))
    /\ nAdds' = nAdds + 1
    /\ UNCHANGED <<pc, items, buf, written, source, reader, closed, nsent,
                   attr_written>>
    /\ UNCHANGED parserVars

\* IppAttributeList::write, for one iteration order of each group's map
Write(iters) ==
    /\ pc = "build"
    /\ LET out == IppAttributeList_write(attributes, iters)
       IN  /\ items' = [i \in 1..Len(out) |->
                          [kind |-> out[i].kind, group |-> out[i].group,
                           name |-> out[i].name]]
           /\ buf' = ItemBytes(out)
           /\ written' = ItemCount(out)
    /\ pc' = "written"
    /\ UNCHANGED <<attributes, nAdds, source, reader, closed, nsent,
                   attr_written>>
    /\ UNCHANGED parserVars

\* IppAttributeList::into_reader, chained after the header by the request that
\* owns the list
SendRequest ==
    /\ pc = "written"
    /\ reader' = IppHeaderBytes \o buf
    /\ closed' = TRUE
    /\ source' = "written"
    /\ pc' = "header"
    /\ UNCHANGED <<nsent>>
    /\ UNCHANGED builderVars
    /\ UNCHANGED parserVars

\* ------------------------------------------------------------ a raw stream
\* IppParser::new on a stream a peer writes: the header arrives, whole or cut
Open(h) ==
    /\ pc = "build"
    /\ nAdds = 0
    /\ source' = "stream"
    /\ reader' = h
    /\ closed' = (Len(h) < IppHeaderLen)
    /\ pc' = "header"
    /\ UNCHANGED <<nsent>>
    /\ UNCHANGED builderVars
    /\ UNCHANGED parserVars

Waiting ==
    /\ source = "stream"
    /\ pc = "loop"
    /\ reader = <<>>
    /\ ~closed

\* the peer sends one more record
Arrive(tok) ==
    /\ Waiting
    /\ nsent < MaxRecs
    /\ reader' = tok
    /\ nsent' = nsent + 1
    /\ UNCHANGED <<pc, source, closed>>
    /\ UNCHANGED builderVars
    /\ UNCHANGED parserVars

\* the peer sends bytes that end the parse
ArriveLast(tok) ==
    /\ Waiting
    /\ reader' = tok
    /\ UNCHANGED <<pc, source, closed, nsent>>
    /\ UNCHANGED builderVars
    /\ UNCHANGED parserVars

\* the peer sends part of a record and closes
ArriveCut(tok) ==
    /\ Waiting
    /\ reader' = tok
    /\ closed' = TRUE
    /\ UNCHANGED <<pc, source, nsent>>
    /\ UNCHANGED builderVars
    /\ UNCHANGED parserVars

\* the peer closes
Close ==
    /\ Waiting
    /\ closed' = TRUE
    /\ UNCHANGED <<pc, source, reader, nsent>>
    /\ UNCHANGED builderVars
    /\ UNCHANGED parserVars

\* ------------------------------------------------------- IppParser::parse
\* parse fails: Err(e) is returned and retval is dropped
Fail(kind, byte) ==
    /\ outcome' = kind
    /\ errByte' = byte
    /\ pc' = "done"
    /\ UNCHANGED <<delimiter, stack, retval, last_name, result>>

\* line 61: IppHeader::from_reader
ParseHeader ==
    /\ pc = "header"
    /\ Len(reader) >= IppHeaderLen
    /\ reader' = SubSeq(reader, IppHeaderLen + 1, Len(reader))
    /\ read' = read \o SubSeq(reader, 1, IppHeaderLen)
    /\ pc' = "loop"
    /\ UNCHANGED <<source, closed, nsent, delimiter, stack, retval, last_name,
                   outcome, errByte, result>>
    /\ UNCHANGED builderVars

\* line 61: the reader ends inside the header, the ? returns the error
ParseHeaderErr ==
    /\ pc = "header"
    /\ Len(reader) < IppHeaderLen
    /\ closed
    /\ reader' = <<>>
    /\ read' = read \o reader
    /\ Fail("io_error", -1)
    /\ UNCHANGED <<source, closed, nsent>>
    /\ UNCHANGED builderVars

\* line 65: read_u8 at the end of the reader, the ? returns the error
ReadEof_partial ==
    /\ pc = "loop"
    /\ reader = <<>>
    /\ closed
    /\ outcome' = "ok"
    /\ result' = Some(retval)
    /\ pc' = "done"
    /\ UNCHANGED <<source, reader, closed, nsent, delimiter, stack, retval,
                   last_name, errByte, read>>
    /\ UNCHANGED builderVars

ReadEof ==
    /\ pc = "loop"
    /\ reader = <<>>
    /\ closed
    /\ Fail("io_error", -1)
    /\ UNCHANGED <<source, reader, closed, nsent, read>>
    /\ UNCHANGED builderVars

\* lines 68-78: the end of the attributes; the previous attribute is put into
\* retval and the loop is left
ReadEnd ==
    /\ pc = "loop"
    /\ reader # <<>>
    /\ is_delimiter_tag(Head(reader))
    /\ Head(reader) = EndOfAttributes
    /\ reader' = Tail(reader)
    /\ retval' = Flush(retval, delimiter, last_name, stack)
    /\ stack' = IF last_name.some /\ stack # <<>> THEN Front(stack) ELSE stack
    /\ result' = Some(retval')
    /\ outcome' = "ok"
    /\ pc' = "done"
    /\ read' = Append(read, Head(reader))
    /\ UNCHANGED <<source, closed, nsent, delimiter, last_name, errByte>>
    /\ UNCHANGED builderVars

\* lines 79-85: another delimiter tag, of a group from_u8 knows
ReadGroup_flushing ==
    /\ pc = "loop"
    /\ reader # <<>>
    /\ is_delimiter_tag(Head(reader))
    /\ Head(reader) # EndOfAttributes
    /\ DelimiterTag_from_u8(Head(reader)).some
    /\ reader' = Tail(reader)
    /\ delimiter' = DelimiterTag_from_u8(Head(reader)).v
    /\ retval' = Flush(retval, delimiter, last_name, stack)
    /\ stack' = << <<>> >>
    /\ last_name' = None
    /\ read' = Append(read, Head(reader))
    /\ UNCHANGED <<pc, source, closed, nsent, outcome, errByte, result>>
    /\ UNCHANGED builderVars

ReadGroup_peek ==
    /\ pc = "loop"
    /\ reader # <<>>
    /\ is_delimiter_tag(Head(reader))
    /\ Head(reader) # EndOfAttributes
    /\ DelimiterTag_from_u8(Head(reader)).some
    /\ delimiter' = DelimiterTag_from_u8(Head(reader)).v
    /\ UNCHANGED <<pc, source, reader, closed, nsent, stack, retval, last_name,
                   outcome, errByte, result, read>>
    /\ UNCHANGED builderVars

ReadGroup ==
    /\ pc = "loop"
    /\ reader # <<>>
    /\ is_delimiter_tag(Head(reader))
    /\ Head(reader) # EndOfAttributes
    /\ DelimiterTag_from_u8(Head(reader)).some
    /\ reader' = Tail(reader)
    /\ delimiter' = DelimiterTag_from_u8(Head(reader)).v
    /\ read' = Append(read, Head(reader))
    /\ UNCHANGED <<pc, source, closed, nsent, stack, retval, last_name, outcome,
                   errByte, result>>
    /\ UNCHANGED builderVars

\* lines 81-84: a delimiter tag of no group, ok_or(..)? returns the tag error
ReadBadDelimiter_skip ==
    /\ pc = "loop"
    /\ reader # <<>>
    /\ is_delimiter_tag(Head(reader))
    /\ Head(reader) # EndOfAttributes
    /\ ~DelimiterTag_from_u8(Head(reader)).some
    /\ reader' = Tail(reader)
    /\ read' = Append(read, Head(reader))
    /\ UNCHANGED <<pc, source, closed, nsent, delimiter, stack, retval,
                   last_name, outcome, errByte, result>>
    /\ UNCHANGED builderVars

ReadBadDelimiter ==
    /\ pc = "loop"
    /\ reader # <<>>
    /\ is_delimiter_tag(Head(reader))
    /\ Head(reader) # EndOfAttributes
    /\ ~DelimiterTag_from_u8(Head(reader)).some
    /\ reader' = Tail(reader)
    /\ read' = Append(read, Head(reader))
    /\ Fail("tag_error", Head(reader))
    /\ UNCHANGED <<source, closed, nsent>>
    /\ UNCHANGED builderVars

\* lines 86-124: a value tag with its name and value
ReadValue ==
    /\ pc = "loop"
    /\ reader # <<>>
    /\ ~is_delimiter_tag(Head(reader))
    /\ is_value_tag(Head(reader))
    /\ Record(reader).ok
    /\ LET rec == Record(reader)
           named == rec.namelen > 0
           flushing == named /\ last_name.some
           retval1 == IF flushing
                      THEN Flush(retval, delimiter, last_name, stack)
                      ELSE retval
           stack1 == IF flushing
                     THEN Append(IF stack = <<>> THEN <<>> ELSE Front(stack),
                                 <<>>)
                     ELSE stack
           stack2 == CASE rec.tag = BegCollection -> Append(stack1, <<>>)
                       [] rec.tag = EndCollection -> OnEndCollection(stack1)
                       [] OTHER -> PushValue(stack1, rec.value)
       IN  /\ reader' = SubSeq(reader, rec.size + 1, Len(reader))
           /\ read' = read \o SubSeq(reader, 1, rec.size)
           /\ retval' = retval1
           /\ stack' = stack2
           /\ last_name' = IF named THEN Some(rec.name) ELSE last_name
    /\ UNCHANGED <<pc, source, closed, nsent, delimiter, outcome, errByte,
                   result>>
    /\ UNCHANGED builderVars

\* lines 88-90: the reader ends inside the record, the ? returns the error
ReadValueErr ==
    /\ pc = "loop"
    /\ reader # <<>>
    /\ ~is_delimiter_tag(Head(reader))
    /\ is_value_tag(Head(reader))
    /\ ~Record(reader).ok
    /\ closed
    /\ reader' = <<>>
    /\ read' = read \o reader
    /\ Fail("io_error", -1)
    /\ UNCHANGED <<source, closed, nsent>>
    /\ UNCHANGED builderVars

\* lines 125-130: neither a delimiter tag nor a value tag
ReadInvalid_skip ==
    /\ pc = "loop"
    /\ reader # <<>>
    /\ ~is_delimiter_tag(Head(reader))
    /\ ~is_value_tag(Head(reader))
    /\ reader' = Tail(reader)
    /\ read' = Append(read, Head(reader))
    /\ UNCHANGED <<pc, source, closed, nsent, delimiter, stack, retval,
                   last_name, outcome, errByte, result>>
    /\ UNCHANGED builderVars

ReadInvalid ==
    /\ pc = "loop"
    /\ reader # <<>>
    /\ ~is_delimiter_tag(Head(reader))
    /\ ~is_value_tag(Head(reader))
    /\ reader' = Tail(reader)
    /\ read' = Append(read, Head(reader))
    /\ Fail("tag_error", Head(reader))
    /\ UNCHANGED <<source, closed, nsent>>
    /\ UNCHANGED builderVars

\* ------------------------------------------------------------ specification
Iters(io, ij, ip) ==
    (OperationAttributes :> io) @@ (JobAttributes :> ij)
    @@ (PrinterAttributes :> ip)

Next ==
    \/ \E c \in AddChoices : Add(c[1], c[2], c[3])
    \/ \E io \in IterOrders(GroupNames(attributes, OperationAttributes)),
          ij \in IterOrders(GroupNames(attributes, JobAttributes)),
          ip \in IterOrders(GroupNames(attributes, PrinterAttributes)) :
          Write(Iters(io, ij, ip))
    \/ SendRequest
    \/ \E h \in {IppHeaderBytes, <<1, 1, 0>>} : Open(h)
    \/ \E tok \in Tokens : Arrive(tok)
    \/ \E tok \in LastTokens : ArriveLast(tok)
    \/ \E tok \in CutTokens : ArriveCut(tok)
    \/ Close
    \/ ParseHeader
    \/ ParseHeaderErr
    \/ ReadEof
    \/ ReadEnd
    \/ ReadGroup
    \/ ReadBadDelimiter
    \/ ReadValue
    \/ ReadValueErr
    \/ ReadInvalid

Spec == Init /\ [][Next]_vars

\* parse, from the call to its return: the header, then the loop of lines
\* 64-131
ParseStep ==
    \/ ParseHeader
    \/ ParseHeaderErr
    \/ ReadEof
    \/ ReadEnd
    \/ ReadGroup
    \/ ReadBadDelimiter
    \/ ReadValue
    \/ ReadValueErr
    \/ ReadInvalid

\* parse is sequential code that does not wait for anything but its reader:
\* a step it can take, it takes
LiveSpec == Spec /\ WF_vars(ParseStep)

\* --------------------------------------- attributes with names of any length
\* IppAttribute::write applied to an attribute whose name may be longer than
\* a u16 counts
\* a name of len bytes, all of them the byte b
Name(len, b) == [i \in 1..len |-> b]
\* lengths on both sides of what one byte and what two bytes can hold
NameLens == {0, 1, 2, 255, 256, 257, 65534, 65535, 65536, 65537, 65538, 131072}
\* "a", "!", "-"
NameFill == {97, 33, 45}

\* IppAttribute::write on such an attribute.  What is kept of the bytes w put
\* on the writer: the name length field as a decoder reads it, the number of
\* bytes between that field and the bytes of the value, whether a decoder
\* that reads the record gets the name back, and the count returned.
WriteNamed(len, b, value) ==
    /\ pc = "build"
    /\ nAdds = 0
    /\ ~attr_written.some
    /\ LET attr == IppAttribute_new(Name(len, b), value)
           w == IppAttribute_write(attr)
           rec == Record(w)
       IN  attr_written' =
              Some([len |-> Len(attr.name),
                    fill |-> b,
                    value |-> value,
                    field |-> ReadU16BE(w[2], w[3]),
                    name_bytes |-> Len(w) - 3 - Len(IppValue_write(value)),
                    decoded |-> rec.ok /\ rec.name = attr.name,
                    retval |-> IppAttribute_write_retval(attr),
                    total |-> Len(w)])
    /\ UNCHANGED <<pc, attributes, nAdds, items, buf, written, source, reader,
                   closed, nsent>>
    /\ UNCHANGED parserVars

NameNext ==
    \E len \in NameLens, b \in NameFill, v \in Values \cup {I2, K1} :
       WriteNamed(len, b, v)

NameSpec == Init /\ [][NameNext]_vars

\* ------------------------------------------------ lists with any group key
\* write applied to lists whose attributes may lie under any DelimiterTag
AnyGroupChoices == DelimiterTag \X {JOB_ID, PRINTER_URI} \X Values

GroupNext ==
    \/ \E c \in AnyGroupChoices : Add(c[1], c[2], c[3])
    \/ \E io \in IterOrders(GroupNames(attributes, OperationAttributes)),
          ij \in IterOrders(GroupNames(attributes, JobAttributes)),
          ip \in IterOrders(GroupNames(attributes, PrinterAttributes)) :
          Write(Iters(io, ij, ip))

GroupSpec == Init /\ [][GroupNext]_vars

\* ------------------------------------------------------------ properties
\* the (group, name, value) triples of a list
Triples(list) ==
    UNION {{<<g, n, list[g][n].value>> : n \in DOMAIN list[g]} :
             g \in DOMAIN list}

\* the attribute items of what write emitted that a group's tag follows at
\* once: (own group, name, following group)
BeforeBoundary ==
    {<<items[i].group, items[i].name, items[i + 1].group>> :
        i \in {j \in 1..(Len(items) - 1) :
                 /\ items[j].kind = "attr"
                 /\ items[j + 1].kind = "delim"
                 /\ items[j + 1].group # EndOfAttributes}}

ParsedWritten == source = "written" /\ pc = "done"

\* C1: parsing what write produced succeeds and gives back every
\* (group, name, value) of the list, none lost and no value changed, except
\* that the last attribute emitted before a group's tag may be found under
\* the following group.
C1_RoundTrip ==
    ParsedWritten =>
        /\ outcome = "ok"
        /\ result.some
        /\ LET T == Triples(attributes)
               P == Triples(result.v)
           IN  /\ \A t \in T :
                     \/ t \in P
                     \/ \E r \in BeforeBoundary :
                           /\ r[1] = t[1] /\ r[2] = t[2]
                           /\ <<r[3], t[2], t[3]>> \in P
               /\ \A q \in P :
                     \/ q \in T
                     \/ \E r \in BeforeBoundary :
                           /\ r[3] = q[1] /\ r[2] = q[2]
                           /\ <<r[1], q[2], q[3]>> \in T
               /\ Cardinality(P) = Cardinality(T)

\* write has returned
Written == pc = "written"

\* the three header names in the order the wire format fixes
HeaderOrder ==
    <<ATTRIBUTES_CHARSET, ATTRIBUTES_NATURAL_LANGUAGE, PRINTER_URI>>

\* those of them the Operation group of the list holds, in that order
HeadersPresent ==
    SelectSeq(HeaderOrder,
              LAMBDA h : h \in GroupNames(attributes, OperationAttributes))

\* the delimiter bytes of a byte stream, found by walking it record by record
RECURSIVE DelimitersOf(_)
DelimitersOf(bytes) ==
    IF bytes = <<>> THEN <<>>
    ELSE IF is_delimiter_tag(Head(bytes))
         THEN <<Head(bytes)>> \o DelimitersOf(Tail(bytes))
         ELSE DelimitersOf(SubSeq(bytes, Record(bytes).size + 1, Len(bytes)))

CountOf(seq, x) == Cardinality({i \in 1..Len(seq) : seq[i] = x})
IndexOf(seq, x) == CHOOSE i \in 1..Len(seq) : seq[i] = x

\* the delimiter item that opens the section item i lies in
SectionOf(i) ==
    items[CHOOSE d \in 1..i :
            /\ items[d].kind = "delim"
            /\ \A e \in (d + 1)..i : items[e].kind # "delim"].group

AttrItems == {i \in 1..Len(items) : items[i].kind = "attr"}

\* C2: the header attributes present in the Operation group are emitted in
\* the fixed order charset, natural-language, printer-uri, right after the
\* leading Operation tag and so before every other attribute.
C2_HeaderOrdering ==
    Written =>
        /\ items[1].kind = "delim"
        /\ items[1].group = OperationAttributes
        /\ \A i \in 1..Len(HeadersPresent) :
              /\ items[1 + i].kind = "attr"
              /\ items[1 + i].group = OperationAttributes
              /\ items[1 + i].name = HeadersPresent[i]
        /\ LET hdrs == [i \in 1..Len(HeadersPresent) |->
                          IppAttribute_write(
                            attributes[OperationAttributes][HeadersPresent[i]])]
               lead == <<OperationAttributes>> \o Flatten(hdrs)
           IN  SubSeq(buf, 1, Len(lead)) = lead
        /\ \A i \in AttrItems :
              i > 1 + Len(HeadersPresent) =>
                 ~(items[i].group = OperationAttributes
                   /\ is_header_attr(items[i].name))

C2_Witness ==
    /\ pc = "written"
    /\ Len(HeadersPresent) = 3

\* C3: the output starts with the Operation tag and ends with the end
\* sentinel, each of them occurs exactly once among the delimiters, and an
\* empty list is written as exactly these two bytes.
C3_Framing ==
    Written =>
        /\ Len(buf) >= 2
        /\ buf[1] = OperationAttributes
        /\ buf[Len(buf)] = EndOfAttributes
        /\ CountOf(DelimitersOf(buf), OperationAttributes) = 1
        /\ CountOf(DelimitersOf(buf), EndOfAttributes) = 1
        /\ (DOMAIN attributes = {} =>
              buf = <<OperationAttributes, EndOfAttributes>>)

C3_Witness ==
    /\ pc = "written"
    /\ JOB_ID \in GroupNames(attributes, OperationAttributes)
    /\ GroupNames(attributes, JobAttributes) # {}

\* C4: the Job tag is emitted once if the Job group has an attribute and not
\* at all otherwise, likewise the Printer tag, Job before Printer, and every
\* attribute is emitted in the section its group's tag opens.
C4_GroupSections ==
    Written =>
        LET D == DelimitersOf(buf)
            hasJob == GroupNames(attributes, JobAttributes) # {}
            hasPrinter == GroupNames(attributes, PrinterAttributes) # {}
        IN  /\ CountOf(D, JobAttributes) = IF hasJob THEN 1 ELSE 0
            /\ CountOf(D, PrinterAttributes) = IF hasPrinter THEN 1 ELSE 0
            /\ (hasJob /\ hasPrinter =>
                  IndexOf(D, JobAttributes) < IndexOf(D, PrinterAttributes))
            /\ D = [i \in 1..Len(D) |->
                      items[CHOOSE k \in 1..Len(items) :
                              /\ items[k].kind = "delim"
                              /\ Cardinality({j \in 1..k :
                                    items[j].kind = "delim"}) = i].group]
            /\ \A i \in AttrItems : SectionOf(i) = items[i].group

C4_Witness ==
    /\ pc = "written"
    /\ GroupNames(attributes, JobAttributes) # {}
    /\ GroupNames(attributes, PrinterAttributes) # {}
    /\ GroupNames(attributes, OperationAttributes) # {}

\* C5: every attribute of the Operation, Job and Printer groups is emitted
\* exactly once, a header attribute of the Operation group in the header
\* step, an attribute of that name in another group inside its own group.
C5_EmittedOnce ==
    Written =>
        /\ \A g \in Groups : \A n \in GroupNames(attributes, g) :
              /\ Cardinality({i \in AttrItems :
                    items[i].group = g /\ items[i].name = n}) = 1
              /\ LET i == CHOOSE j \in AttrItems :
                            items[j].group = g /\ items[j].name = n
                 IN  /\ SectionOf(i) = g
                     /\ (g = OperationAttributes /\ is_header_attr(n)
                           => i <= 1 + Len(HeadersPresent))
                     /\ (g # OperationAttributes \/ ~is_header_attr(n)
                           => i > 1 + Len(HeadersPresent))
        /\ Cardinality(AttrItems) = Cardinality(Triples(attributes))
        /\ buf = Flatten([i \in 1..Len(items) |->
                  IF items[i].kind = "delim" THEN <<items[i].group>>
                  ELSE IppAttribute_write(
                          attributes[items[i].group][items[i].name])])

C5_Witness ==
    /\ pc = "written"
    /\ PRINTER_URI \in GroupNames(attributes, OperationAttributes)
    /\ PRINTER_URI \in GroupNames(attributes, JobAttributes)

\* ---- the decoder, against the bytes it has read
\* value tags that carry a value of their own
Ordinary(tag) == is_value_tag(tag) /\ tag \notin {BegCollection, EndCollection}

\* the tags and records in a byte stream, in order
RECURSIVE Walk(_)
Walk(bytes) ==
    IF bytes = <<>> THEN <<>>
    ELSE IF is_delimiter_tag(Head(bytes))
         THEN <<[kind |-> "delim", tag |-> Head(bytes), named |-> FALSE,
                 name |-> <<>>, value |-> Scalar(0, <<>>)]>>
              \o Walk(Tail(bytes))
    ELSE IF is_value_tag(Head(bytes)) /\ Record(bytes).ok
         THEN LET rec == Record(bytes)
              IN  <<[kind |-> "value", tag |-> rec.tag,
                     named |-> (rec.namelen > 0), name |-> rec.name,
                     value |-> rec.value]>>
                  \o Walk(SubSeq(bytes, rec.size + 1, Len(bytes)))
    ELSE <<[kind |-> "junk", tag |-> Head(bytes), named |-> FALSE,
            name |-> <<>>, value |-> Scalar(0, <<>>)]>>

\* what parse has read after the header
AttributeBytes == SubSeq(read, IppHeaderLen + 1, Len(read))
\* the value-tag records parse has read
ValueRecords == SelectSeq(Walk(AttributeBytes), LAMBDA r : r.kind = "value")
\* the records of the attribute that is pending: the last record with a name
\* among the value-tag records vr, and the records after it
PendingOf(vr) ==
    LET namedAt == {i \in 1..Len(vr) : vr[i].named}
        k == CHOOSE i \in namedAt : \A j \in namedAt : j <= i
    IN  SubSeq(vr, k, Len(vr))
Pending == LET vr == ValueRecords IN PendingOf(vr)
\* the pending attribute is the first of the stream and records without a
\* name were read before it
LedByNamelessIn(vr) ==
    /\ Cardinality({i \in 1..Len(vr) : vr[i].named}) = 1
    /\ ~vr[1].named
LedByNameless == LET vr == ValueRecords IN LedByNamelessIn(vr)

ValuesOf(rs) == [i \in 1..Len(rs) |-> rs[i].value]

\* parse is about to put the pending attribute into retval: it is at an end
\* sentinel or at a value tag with a name
Flushing ==
    /\ pc = "loop"
    /\ reader # <<>>
    /\ last_name.some
    /\ stack # <<>>
    /\ \/ Head(reader) = EndOfAttributes
       \/ /\ ~is_delimiter_tag(Head(reader))
          /\ is_value_tag(Head(reader))
          /\ Record(reader).ok
          /\ Record(reader).namelen > 0
    /\ pc' # pc \/ reader' # reader

\* what the flush stored
Stored == IppAttributeList_get(retval', delimiter, last_name.v)

Collapsed(P) ==
    /\ Stored.some
    /\ Stored.v.name = last_name.v
    /\ Stored.v.value = IF Len(P) = 1 THEN P[1].value ELSE ListOf(ValuesOf(P))

AllOrdinary(rs) == \A i \in 1..Len(rs) : Ordinary(rs[i].tag)

\* C6 as claimed: a flushed attribute with one value record is stored as that
\* value, one with N > 1 value records as the array of the N values in order.
C6_Original ==
    [][Flushing => LET P == Pending
                   IN  AllOrdinary(P) => Collapsed(P)]_vars

\* C6: as C6_Original, for every attribute but a stream's first one when
\* records without a name were read before it.
C6_ArrayCollapsing ==
    [][Flushing => LET P == Pending
                   IN  AllOrdinary(P) /\ ~LedByNameless => Collapsed(P)]_vars

C6_Witness ==
    /\ source = "stream"
    /\ outcome = "ok"
    /\ \E t \in Triples(result.v) : t[3] = ListOf(<<I1, I2, K1>>)
    /\ \E t \in Triples(result.v) : t[3] = K1

\* a stream whose value-tag records are a BegCollection with a name, two
\* scalar attributes with names of their own, and an EndCollection
NamedMembers(vr) ==
    /\ Len(vr) = 4
    /\ vr[1].tag = BegCollection /\ vr[1].named
    /\ Ordinary(vr[2].tag) /\ vr[2].named
    /\ Ordinary(vr[3].tag) /\ vr[3].named
    /\ vr[4].tag = EndCollection /\ ~vr[4].named

\* C7 as claimed: such a stream decodes to one attribute, named as the
\* BegCollection record, whose value is one collection of the two inner
\* values in order, and to no other attribute.
C7_Original ==
    (pc = "done" /\ outcome = "ok") =>
        LET vr == ValueRecords
        IN  NamedMembers(vr) =>
               \E g \in DelimiterTag :
                  Triples(result.v) =
                     {<<g, vr[1].name,
                        Collection(<<vr[2].value, vr[3].value>>)>>}

\* the pending attribute is a BegCollection with a name, scalar value records
\* without a name (two, or another number of them) and an EndCollection
NamelessMembers(P) ==
    /\ Len(P) >= 2
    /\ P[1].tag = BegCollection
    /\ \A i \in 2..(Len(P) - 1) : Ordinary(P[i].tag)
    /\ P[Len(P)].tag = EndCollection

\* parse is at a value-tag record without a name
AtNameless ==
    /\ pc = "loop"
    /\ reader # <<>>
    /\ ~is_delimiter_tag(Head(reader))
    /\ is_value_tag(Head(reader))
    /\ Record(reader).ok
    /\ Record(reader).namelen = 0

\* C7: a BegCollection record with name X followed by two scalar value records
\* with zero-length names and an EndCollection is flushed as one attribute X
\* whose value is one collection of the two values in order; the flush adds
\* nothing else and the records without a name add nothing (X not being a
\* stream's first attribute with nameless records before it).
C7_CollectionNesting ==
    [][/\ (Flushing =>
             LET P == Pending
             IN  NamelessMembers(P) /\ ~LedByNameless =>
                    retval' = IppAttributeList_add(retval, delimiter,
                                 IppAttribute_new(last_name.v,
                                    Collection(ValuesOf(
                                       SubSeq(P, 2, Len(P) - 1))))))
       /\ (AtNameless => retval' = retval)]_vars

C7_Witness ==
    /\ source = "stream"
    /\ outcome = "ok"
    /\ \E g \in DelimiterTag :
          Triples(result.v) = {<<g, PRINTER_URI, Collection(<<I2, K1>>)>>}

\* parse is at a byte that is neither a delimiter tag nor a value tag
InvalidAtTag ==
    /\ pc = "loop"
    /\ reader # <<>>
    /\ ~is_delimiter_tag(Head(reader))
    /\ ~is_value_tag(Head(reader))

\* C8: at such a byte parse fails with a tag error that carries the byte,
\* having read that byte and nothing after it, returns no list, and reads
\* nothing later.
C8_MalformedTag ==
    [][/\ (InvalidAtTag =>
             /\ outcome' = "tag_error"
             /\ errByte' = Head(reader)
             /\ read' = Append(read, Head(reader))
             /\ reader' = Tail(reader)
             /\ ~result'.some
             /\ pc' = "done")
       /\ (outcome = "tag_error" =>
             UNCHANGED <<reader, read, result, outcome, errByte>>)]_vars

C8_Witness ==
    /\ outcome = "tag_error"
    /\ errByte = 127
    /\ reader = <<EndOfAttributes>>
    /\ DOMAIN retval # {}
    /\ ~result.some

\* the reader ends before the bytes parse needs next
Exhausted ==
    /\ closed
    /\ \/ pc = "header" /\ Len(reader) < IppHeaderLen
       \/ /\ pc = "loop"
          /\ \/ reader = <<>>
             \/ /\ ~is_delimiter_tag(Head(reader))
                /\ is_value_tag(Head(reader))
                /\ ~Record(reader).ok

\* C9: a result is returned only by the step that reads the end sentinel, which
\* reads that byte alone; nothing is read once parse has returned; and when the
\* reader ends before the sentinel parse returns the I/O error and no list.
C9_EndOnly ==
    [][/\ (result'.some /\ ~result.some =>
             /\ pc = "loop"
             /\ reader # <<>>
             /\ Head(reader) = EndOfAttributes
             /\ read' = Append(read, EndOfAttributes)
             /\ reader' = Tail(reader))
       /\ (outcome' = "ok" <=> result'.some)
       /\ (pc = "done" => UNCHANGED <<reader, read, result, outcome>>)
       /\ (Exhausted =>
             /\ outcome' = "io_error"
             /\ ~result'.some
             /\ pc' = "done")]_vars

C9_Witness ==
    /\ outcome = "io_error"
    /\ pc = "done"
    /\ DOMAIN retval # {}
    /\ ~result.some

\* C10: when the attribute bytes are the Operation tag and the end sentinel,
\* parse succeeds with a list that holds no attribute and no group.
C10_EmptyDocument ==
    (pc = "done"
     /\ AttributeBytes = <<OperationAttributes, EndOfAttributes>>) =>
        /\ outcome = "ok"
        /\ result.some
        /\ Triples(result.v) = {}
        /\ DOMAIN result.v = {}

C10_Witness ==
    /\ pc = "done"
    /\ source = "stream"
    /\ AttributeBytes = <<OperationAttributes, EndOfAttributes>>
    /\ result.some

\* ---- the list, as a map
\* the names attributes are given
Names == {ATTRIBUTES_CHARSET, ATTRIBUTES_NATURAL_LANGUAGE, PRINTER_URI, JOB_ID,
          JOB_NAME}

\* every attribute of a list is stored under its own name
KeyedByName(list) ==
    \A g \in DOMAIN list : \A n \in DOMAIN list[g] : list[g][n].name = n

\* C11: in a list built by add calls every attribute is stored under its own
\* name, one per group and name; one more add(g, a) makes get(g, a.name)
\* return a, whatever was there, and leaves get unchanged for every other
\* group and name; get returns None in the new list and for a group or name
\* no add was made for.
C11_LastWriteWins ==
    [][/\ (pc = "build" =>
             /\ KeyedByName(attributes)
             /\ \A c \in AddChoices :
                   LET a == IppAttribute_new(c[2], c[3])
                       after == IppAttributeList_add(attributes, c[1], a)
                   IN  /\ IppAttributeList_get(after, c[1], c[2]) = Some(a)
                       /\ \A g \in DelimiterTag : \A n \in Names :
                             <<g, n>> # <<c[1], c[2]>> =>
                                IppAttributeList_get(after, g, n)
                                   = IppAttributeList_get(attributes, g, n)
             /\ \A g \in DelimiterTag : \A n \in Names :
                   (nAdds = 0 \/ ~(\E c \in AddChoices : c[1] = g /\ c[2] = n))
                      => IppAttributeList_get(attributes, g, n) = None
             /\ \A g \in DelimiterTag :
                   (nAdds = 0 \/ ~(\E c \in AddChoices : c[1] = g))
                      => IppAttributeList_get_group(attributes, g) = None)
       /\ (nAdds' # nAdds =>
             \E c \in AddChoices :
                /\ IppAttributeList_get(attributes', c[1], c[2])
                      = Some(IppAttribute_new(c[2], c[3]))
                /\ \A g \in DelimiterTag : \A n \in Names :
                      <<g, n>> # <<c[1], c[2]>> =>
                         IppAttributeList_get(attributes', g, n)
                            = IppAttributeList_get(attributes, g, n))
       /\ (nAdds' = nAdds => attributes' = attributes)]_vars

\* three add calls, one of which replaced an attribute, and the same name
\* held with another value in another group
C11_Witness ==
    /\ pc = "build"
    /\ nAdds = 3
    /\ IppAttributeList_get(attributes, OperationAttributes, JOB_ID)
          = Some(IppAttribute_new(JOB_ID, ListOf(<<I2, I1>>)))
    /\ IppAttributeList_get(attributes, JobAttributes, JOB_ID)
          = Some(IppAttribute_new(JOB_ID, I1))
    /\ Cardinality(Triples(attributes)) = 2

\* ---- the group an attribute is recorded under
\* the delimiter tags parse has read
DelimitersRead == SelectSeq(Walk(AttributeBytes), LAMBDA r : r.kind = "delim")
\* the group of the last of them, the end sentinel's when there is none
LastGroupRead ==
    LET d == DelimitersRead
    IN  IF d = <<>> THEN EndOfAttributes ELSE d[Len(d)].tag

\* C12: a flush, at a value tag with a name or at the end sentinel, records
\* the pending attribute under the group of the last delimiter tag read so
\* far (the end sentinel's group when none was read) and changes nothing
\* else in the result list: no other group, no other name of that group.
C12_FlushGroup ==
    [][Flushing =>
         LET g == LastGroupRead
         IN  /\ IppAttributeList_get(retval', g, last_name.v)
                   = Some(IppAttribute_new(last_name.v,
                                           list_to_value(Last(stack))))
             /\ \A h \in DelimiterTag \ {g} :
                   IppAttributeList_get_group(retval', h)
                      = IppAttributeList_get_group(retval, h)
             /\ \A n \in GroupNames(retval', g) \ {last_name.v} :
                   IppAttributeList_get(retval', g, n)
                      = IppAttributeList_get(retval, g, n)]_vars

\* job-id was written in the Operation section, last before the Job tag, and
\* parse has recorded it under Job and nothing under Operation
C12_Witness ==
    /\ source = "written"
    /\ outcome = "ok"
    /\ GroupNames(attributes, OperationAttributes) = {JOB_ID}
    /\ GroupNames(attributes, JobAttributes) = {JOB_NAME}
    /\ GroupNames(result.v, JobAttributes) = {JOB_ID}
    /\ GroupNames(result.v, OperationAttributes) = {}
    /\ GroupNames(result.v, EndOfAttributes) = {}

\* ---- delimiter tags
\* parse is at a delimiter tag, not the end sentinel, that from_u8 maps to a
\* group
AtGroupTag ==
    /\ pc = "loop"
    /\ reader # <<>>
    /\ is_delimiter_tag(Head(reader))
    /\ Head(reader) # EndOfAttributes
    /\ Head(reader) \in DelimiterTag

\* C13: reading such a tag makes its group the current one, reads that byte
\* alone, and changes nothing else: not the stack, the pending name or the
\* result list, so nothing is flushed, and parse goes on.
C13_GroupSwitch ==
    [][AtGroupTag =>
         /\ delimiter' = Head(reader)
         /\ read' = Append(read, Head(reader))
         /\ reader' = Tail(reader)
         /\ UNCHANGED <<stack, last_name, retval, result, outcome, errByte,
                        pc>>]_vars

\* the Job tag was read last, job-id is pending, nothing is recorded
C13_Witness ==
    /\ pc = "loop"
    /\ delimiter = JobAttributes
    /\ last_name = Some(JOB_ID)
    /\ stack = << <<I1>> >>
    /\ DOMAIN retval = {}
    /\ LET w == Walk(AttributeBytes)
       IN  /\ w # <<>>
           /\ w[Len(w)].kind = "delim"
           /\ w[Len(w)].tag = JobAttributes

\* parse is at a byte that is a delimiter tag but is the tag of no group
AtUnknownDelimiter ==
    /\ pc = "loop"
    /\ reader # <<>>
    /\ is_delimiter_tag(Head(reader))
    /\ Head(reader) \notin DelimiterTag

\* C14: at such a byte parse fails with a tag error that carries the byte;
\* the current group stays a known group, the one it was, nothing is flushed
\* and no list is returned.
C14_UnknownDelimiter ==
    [][AtUnknownDelimiter =>
         /\ outcome' = "tag_error"
         /\ errByte' = Head(reader)
         /\ pc' = "done"
         /\ ~result'.some
         /\ delimiter' = delimiter
         /\ delimiter' \in DelimiterTag
         /\ UNCHANGED <<retval, stack, last_name>>]_vars

\* the byte 15 ended the parse while job-id was pending
C14_Witness ==
    /\ outcome = "tag_error"
    /\ errByte = 15
    /\ pc = "done"
    /\ last_name = Some(JOB_ID)
    /\ delimiter = OperationAttributes
    /\ DOMAIN retval = {}
    /\ ~result.some

\* ---- termination
\* C15: every step of the loop either reads at least one byte, taken from the
\* front of the reader, or returns; parse is running until it returns and
\* returns as one of success, tag error, I/O error; and once the reader is
\* known to end, parse does return.
C15_Terminates ==
    /\ [][(pc = "loop" /\ parserVars' # parserVars) =>
            /\ read' \o reader' = read \o reader
            /\ Len(read') > Len(read) \/ pc' = "done"]_vars
    /\ [](/\ pc = "done" => outcome \in {"ok", "tag_error", "io_error"}
          /\ pc # "done" => outcome = "running"
          /\ outcome = "ok" =>
                read # <<>> /\ read[Len(read)] = EndOfAttributes)
    /\ ((pc \in {"header", "loop"} /\ closed) ~> (pc = "done"))

\* parse has returned after reading a whole written list of three attributes
C15_Witness ==
    /\ pc = "done"
    /\ source = "written"
    /\ outcome = "ok"
    /\ reader = <<>>
    /\ Len(ValueRecords) >= 3

\* ---- the count write returns
\* the delimiter items of what write emitted
DelimItems == {i \in 1..Len(items) : items[i].kind = "delim"}

\* C16: the count write returns is the number of bytes it put on the writer:
\* one for each delimiter tag and, for each attribute emitted, one for the
\* tag, two for the name length, the bytes of the name and the bytes of the
\* value as its own write produced them.
C16_ByteCount ==
    Written =>
        /\ written = Len(buf)
        /\ written =
              Cardinality(DelimItems)
              + SumSeq([i \in 1..Len(items) |->
                          IF items[i].kind = "delim" THEN 0
                          ELSE LET a == attributes[items[i].group][items[i].name]
                               IN  1 + 2 + Len(a.name)
                                   + Len(IppValue_write(a.value))])

\* a list with a header attribute, an array in the Job group and one more
\* group has been written
C16_Witness ==
    /\ pc = "written"
    /\ Cardinality(DelimItems) = 4
    /\ Cardinality(AttrItems) = 3
    /\ IppAttributeList_get(attributes, JobAttributes, JOB_NAME)
          = Some(IppAttribute_new(JOB_NAME, ListOf(<<I2, I1>>)))
    /\ written = Len(buf)

\* ---- the name length field
\* C17: the two bytes IppAttribute::write puts after the tag are, big-endian,
\* the number of bytes of the name, that many name bytes follow before the
\* bytes of the value, and a decoder that reads the length and then that many
\* bytes as the name gets the name.
C17_NameLength ==
    attr_written.some =>
        /\ attr_written.v.field = attr_written.v.len
        /\ attr_written.v.name_bytes = attr_written.v.field
        /\ attr_written.v.decoded

\* ---- the depth of the stack
\* the collections open after the first k of the value-tag records vr
OpenAfter(vr, k) ==
    Cardinality({i \in 1..k : vr[i].tag = BegCollection})
    - Cardinality({i \in 1..k : vr[i].tag = EndCollection})

\* no EndCollection among them came without a collection open
NoUnmatchedEnd(vr) == \A k \in 1..Len(vr) : OpenAfter(vr, k) >= 0

\* C18: at the start of every iteration of the loop, if no EndCollection was
\* read without a collection open, the stack is not empty and its depth is one
\* more than the number of collections open; so a value tag with a name, not
\* itself a collection tag, leaves the depth as it is, and the depth is one
\* as long as no collection tag was read.
C18_StackDepth ==
    pc = "loop" =>
        LET vr == ValueRecords
        IN  NoUnmatchedEnd(vr) =>
               /\ stack # <<>>
               /\ Len(stack) = 1 + OpenAfter(vr, Len(vr))

\* a collection is open and a value tag with a name was read inside it,
\* with a name pending
C18_Witness ==
    /\ pc = "loop"
    /\ Len(stack) = 2
    /\ last_name = Some(JOB_ID)
    /\ LET vr == ValueRecords
       IN  /\ Len(vr) = 2
           /\ vr[1].tag = BegCollection /\ vr[1].named
           /\ vr[2].tag = Integer /\ vr[2].named

\* ---- groups and their attributes
\* every group a list holds has an attribute
NonEmptyGroups(list) == \A g \in DOMAIN list : DOMAIN list[g] # {}

\* C19: every group present in a list built by add calls, the list parse
\* fills and returns included, holds at least one attribute; so for write a
\* group is present exactly when it has attributes, and the tag of the Job
\* or Printer group is always followed by an attribute of that group.
C19_NonEmptyGroups ==
    /\ NonEmptyGroups(attributes)
    /\ NonEmptyGroups(retval)
    /\ result.some => NonEmptyGroups(result.v)
    /\ \A g \in DelimiterTag :
          /\ IppAttributeList_get_group(attributes, g).some
                <=> GroupNames(attributes, g) # {}
          /\ IppAttributeList_get_group(retval, g).some
                <=> GroupNames(retval, g) # {}
    /\ \A i \in DelimItems :
          items[i].group \in {JobAttributes, PrinterAttributes} =>
             /\ i < Len(items)
             /\ items[i + 1].kind = "attr"
             /\ items[i + 1].group = items[i].group

\* a list with all three groups was written, Operation holding header
\* attributes only, and parse has returned a list made from the output
C19_Witness ==
    /\ pc = "done"
    /\ source = "written"
    /\ outcome = "ok"
    /\ DOMAIN attributes = Groups
    /\ GroupNames(attributes, OperationAttributes) = {ATTRIBUTES_CHARSET}
    /\ Cardinality(DelimItems) = 4
    /\ DOMAIN result.v # {}

\* ---- groups write does not visit
\* a list without the groups outside gs
Restrict(list, gs) == [g \in (DOMAIN list) \cap gs |-> list[g]]

\* C20: write returns, and what it puts on the writer has only the tags of
\* Operation, Job and Printer and the end sentinel as delimiters and only
\* attributes of these three groups, each of them; the bytes are those write
\* produces for the list without its other groups, so a list with attributes
\* in other groups only is written as the Operation tag and the sentinel.
C20_OtherGroups ==
    Written =>
        /\ \A i \in AttrItems : items[i].group \in Groups
        /\ \A i \in DelimItems :
              items[i].group \in Groups \cup {EndOfAttributes}
        /\ Cardinality(AttrItems)
              = Cardinality(Triples(Restrict(attributes, Groups)))
        /\ written = Len(buf)
        /\ \E io \in IterOrders(GroupNames(attributes, OperationAttributes)),
              ij \in IterOrders(GroupNames(attributes, JobAttributes)),
              ip \in IterOrders(GroupNames(attributes, PrinterAttributes)) :
              buf = ItemBytes(IppAttributeList_write(
                                 Restrict(attributes, Groups),
                                 Iters(io, ij, ip)))
        /\ (DOMAIN attributes \cap Groups = {} =>
              buf = <<OperationAttributes, EndOfAttributes>>)

\* a list with attributes under the end sentinel, under Unsupported and under
\* Job was written: one attribute went out
C20_Witness ==
    /\ pc = "written"
    /\ DOMAIN attributes
          = {EndOfAttributes, UnsupportedAttributes, JobAttributes}
    /\ Cardinality(AttrItems) = 1
    /\ Cardinality(DelimItems) = 3

====
